---- MODULE Spec2Model ----
(***************************************************************************)
(* A model of splitter.py (GrobiSplitter): one run of main() over a        *)
(* repository directory, its metadata and an optional target directory.    *)
(*                                                                         *)
(* Strings the program takes apart (NEVRAs, package paths) are sequences   *)
(* of tokens; the separators "-", ":" and "/" are tokens of their own, so  *)
(* rsplit, split and os.path.split are computed as the code computes them. *)
(* Module identity strings (NSVC) are never taken apart and stay strings.  *)
(***************************************************************************)
EXTENDS Integers, Sequences, FiniteSets, TLC

VARIABLES
    args,       \* the parsed command line (parse_args)
    repo_info,  \* what _get_repoinfo and the hawkey sack yield for the repository
    srcFiles,   \* the package paths P for which <repository>/P exists
    fsTarget,   \* the state of the path named by --target
    tdirs,      \* the subdirectories created under the target, in creation order
    tfiles,     \* the entries placed under the target
    log,        \* the (key, path) pairs handed to _perform_action, in order
    regen,      \* the directories createrepo_c was run on, in order
    out,        \* what was printed
    repos,      \* the Partition Map returned by parse_repository
    pc,         \* the position of main
    error       \* the exception that ended the run, or "none"

vars == <<args, repo_info, srcFiles, fsTarget, tdirs, tfiles, log, regen, out,
          repos, pc, error>>

-----------------------------------------------------------------------------
(* Bounds and universes *)

MaxArtifacts == 2

K1 == "app:main:1:c0"
K2 == "lib:s:2:c1"
NonModular == "non_modular"

\* a-0:1-1.x and a-1:1-1.x differ in the epoch only; b-c has a hyphen in its name
N_a0 == <<"a", "-", "0", ":", "1", "-", "1.x">>
N_a1 == <<"a", "-", "1", ":", "1", "-", "1.x">>
N_bc == <<"b", "-", "c", "-", "0", ":", "1", "-", "1.x">>
Nevras == {N_a0, N_a1, N_bc}

P_a  == <<"Packages", "/", "a", "-", "1", "-", "1.x", ".rpm">>
P_bc == <<"Packages", "/", "b", "-", "c", "-", "1", "-", "1.x", ".rpm">>
O_a  == <<"old", "/", "a", "-", "1", "-", "1.x", ".rpm">>
Locations == {P_a, P_bc, O_a}

Actions == {"hardlink", "symlink", "copy"}

-----------------------------------------------------------------------------
(* String helpers *)

LastIndexOf(s, t) ==
    IF \E i \in 1..Len(s) : s[i] = t
    THEN CHOOSE i \in 1..Len(s) : s[i] = t /\ \A j \in (i+1)..Len(s) : s[j] # t
    ELSE 0

FirstIndexOf(s, t) ==
    IF \E i \in 1..Len(s) : s[i] = t
    THEN CHOOSE i \in 1..Len(s) : s[i] = t /\ \A j \in 1..(i-1) : s[j] # t
    ELSE 0

Raised == <<"#raised">>

\* n, ev, ra = nevra.rsplit('-', 2); ev = ev.split(':', 1)[1]
GetFilename(nevra) ==
    LET j   == LastIndexOf(nevra, "-")
        i   == LastIndexOf(SubSeq(nevra, 1, j - 1), "-")
        n   == SubSeq(nevra, 1, i - 1)
        ev  == SubSeq(nevra, i + 1, j - 1)
        ra  == SubSeq(nevra, j + 1, Len(nevra))
        c   == FirstIndexOf(ev, ":")
    IN  IF j = 0 \/ i = 0 THEN Raised
        ELSE IF c = 0 THEN Raised
        ELSE <<"Packages", "/">> \o n \o <<"-">> \o SubSeq(ev, c + 1, Len(ev))
                \o <<"-">> \o ra \o <<".rpm">>

\* _, pkgfile = os.path.split(pkg)
PathSplitTail(pkg) == SubSeq(pkg, LastIndexOf(pkg, "/") + 1, Len(pkg))

Range(s) == {s[i] : i \in 1..Len(s)}

Perms(S) == {p \in [1..Cardinality(S) -> S] : \A i, j \in 1..Cardinality(S) : p[i] = p[j] => i = j}

-----------------------------------------------------------------------------
(* Classification *)

ParseRepositoryModular(info) ==
    [m \in 1..Len(info.modules) |->
        [key  |-> info.modules[m].nsvc,
         pkgs |-> [a \in 1..Len(info.modules[m].artifacts) |->
                        GetFilename(info.modules[m].artifacts[a])]]]

GetModularPkgset(mod) == UNION {Range(mod[m].pkgs) : m \in 1..Len(mod)}

\* the classifier without its "if pkg.location in modpkgset: continue"
ParseRepositoryNonModular_NoSkip(info, modpkgset) == info.index

ParseRepositoryNonModular(info, modpkgset) ==
    {loc \in info.index : loc \notin modpkgset}

-----------------------------------------------------------------------------
(* Validation *)

RECURSIVE Pairs(_)
Pairs(rs) ==
    IF rs = <<>> THEN <<>>
    ELSE [p \in 1..Len(Head(rs).pkgs) |-> [key |-> Head(rs).key, pkg |-> Head(rs).pkgs[p]]]
            \o Pairs(Tail(rs))

Missing(files, pr) == pr.pkg \notin files

\* a validator that returns at the first missing pair
ValidateReport_FirstOnly(files, rs) ==
    LET r == SelectSeq(Pairs(rs), LAMBDA pr : Missing(files, pr))
    IN  IF r = <<>> THEN r ELSE <<Head(r)>>

\* the lines printed, one per missing pair; isok is False iff one was printed
ValidateReport(files, rs) == SelectSeq(Pairs(rs), LAMBDA pr : Missing(files, pr))

ValidateFilenames(files, rs) ==
    [isok |-> ValidateReport(files, rs) = <<>>, printed |-> ValidateReport(files, rs)]

-----------------------------------------------------------------------------
(* Materialization *)

Entry(dir, name, fs) == {e \in fs : e.dir = dir /\ e.name = name}

\* _perform_action without the try/except around shutil.copy
PerformAction_CopyRaises(pkg, dir, name, a, st) ==
    IF pkg \notin srcFiles /\ a.action # "symlink" THEN [st EXCEPT !.err = "FileNotFoundError"]
    ELSE IF a.action # "copy" /\ Entry(dir, name, st.files) # {}
    THEN [st EXCEPT !.err = "FileExistsError"]
    ELSE [st EXCEPT !.files = (st.files \ Entry(dir, name, st.files))
            \cup {[dir |-> dir, name |-> name, kind |-> a.action, src |-> pkg]}]

\* _perform_action(os.path.join(args.repository, pkg), os.path.join(targetdir, pkgfile), action)
PerformAction(pkg, dir, name, a, st) ==
    IF a.action = "copy" THEN
        IF pkg \in srcFiles
        THEN [st EXCEPT !.files = (st.files \ Entry(dir, name, st.files))
                \cup {[dir |-> dir, name |-> name, kind |-> "copy", src |-> pkg]}]
        ELSE st
    ELSE IF a.action = "hardlink" THEN
        IF pkg \notin srcFiles THEN [st EXCEPT !.err = "FileNotFoundError"]
        ELSE IF Entry(dir, name, st.files) # {} THEN [st EXCEPT !.err = "FileExistsError"]
        ELSE [st EXCEPT !.files = st.files
                \cup {[dir |-> dir, name |-> name, kind |-> "hardlink", src |-> pkg]}]
    ELSE
        IF Entry(dir, name, st.files) # {} THEN [st EXCEPT !.err = "FileExistsError"]
        ELSE [st EXCEPT !.files = st.files
                \cup {[dir |-> dir, name |-> name, kind |-> "symlink", src |-> pkg]}]

RECURSIVE SplitPkgs(_, _, _, _)
SplitPkgs(pkgs, dir, a, st) ==
    IF pkgs = <<>> \/ st.err # "none" THEN st
    ELSE SplitPkgs(Tail(pkgs), dir, a,
            PerformAction(Head(pkgs), dir, PathSplitTail(Head(pkgs)), a,
                [st EXCEPT !.log = Append(st.log, [key |-> dir, pkg |-> Head(pkgs)])]))

RECURSIVE PerformSplit(_, _, _)
PerformSplit(rs, a, st) ==
    IF rs = <<>> \/ st.err # "none" THEN st
    ELSE IF Head(rs).key \in Range(st.dirs) THEN [st EXCEPT !.err = "FileExistsError"]
    ELSE PerformSplit(Tail(rs), a,
            SplitPkgs(Head(rs).pkgs, Head(rs).key, a,
                [st EXCEPT !.dirs = Append(st.dirs, Head(rs).key)]))

SplitStart == [dirs |-> <<>>, files |-> {}, log |-> <<>>, err |-> "none"]

\* create_repos: one createrepo_c per key
CreateReposRuns(rs) == [m \in 1..Len(rs) |-> rs[m].key]

-----------------------------------------------------------------------------
(* The inputs of a run *)

ArtifactLists(n) == UNION {[1..k -> Nevras] : k \in 0..n}

ModuleIndexes ==
    {<<>>}
    \cup {<<[nsvc |-> K1, artifacts |-> l]>> : l \in ArtifactLists(MaxArtifacts)}
    \cup {<<[nsvc |-> K1, artifacts |-> l[1]], [nsvc |-> K2, artifacts |-> l[2]]>> :
            l \in {x \in ArtifactLists(MaxArtifacts) \X ArtifactLists(MaxArtifacts) :
                        Len(x[1]) + Len(x[2]) <= MaxArtifacts}}

RepoInfos ==
    {[hasModules |-> h, modules |-> ms, index |-> ix] :
        h \in BOOLEAN, ms \in ModuleIndexes, ix \in SUBSET Locations}

ArgSets ==
    [action : Actions, target : BOOLEAN, skip_missing : BOOLEAN, create_repos : BOOLEAN]

TargetStates == {"absent", "file", "empty", "nonempty"}

Init ==
    /\ args \in ArgSets
    /\ repo_info \in {r \in RepoInfos : ~r.hasModules => r.modules = <<>>}
    /\ srcFiles \in SUBSET Locations
    /\ fsTarget \in (IF args.target THEN TargetStates ELSE {"absent"})
    /\ tdirs = <<>>
    /\ tfiles = {}
    /\ log = <<>>
    /\ regen = <<>>
    /\ out = <<>>
    /\ repos = <<>>
    /\ pc = "setup_target"
    /\ error = "none"

-----------------------------------------------------------------------------
(* main *)

\* main without its "if args.target:"
AfterValidate_NoTargetTest == "perform_split"

AfterValidate == IF args.target THEN "perform_split" ELSE "done"
AfterParse == IF ~args.skip_missing THEN "validate_filenames" ELSE AfterValidate
AfterSplit == IF args.create_repos THEN "create_repos" ELSE "done"

\* setup_target without the os.listdir test
SetupTarget_NoEmptyTest ==
    /\ pc = "setup_target"
    /\ IF args.target /\ fsTarget = "file"
       THEN /\ error' = "ValueError: Target must be a directory"
            /\ pc' = "error"
            /\ UNCHANGED fsTarget
       ELSE /\ fsTarget' = IF args.target /\ fsTarget = "absent" THEN "empty" ELSE fsTarget
            /\ pc' = "parse_repository"
            /\ UNCHANGED error
    /\ UNCHANGED <<args, repo_info, srcFiles, tdirs, tfiles, log, regen, out, repos>>

SetupTarget ==
    /\ pc = "setup_target"
    /\ IF args.target
       THEN IF fsTarget # "absent"
            THEN IF fsTarget = "file"
                 THEN /\ error' = "ValueError: Target must be a directory"
                      /\ pc' = "error"
                      /\ UNCHANGED fsTarget
                 ELSE IF fsTarget = "nonempty"
                 THEN /\ error' = "ValueError: Target must be empty"
                      /\ pc' = "error"
                      /\ UNCHANGED fsTarget
                 ELSE /\ pc' = "parse_repository"
                      /\ UNCHANGED <<fsTarget, error>>
            ELSE /\ fsTarget' = "empty"
                 /\ pc' = "parse_repository"
                 /\ UNCHANGED error
       ELSE /\ pc' = "parse_repository"
            /\ UNCHANGED <<fsTarget, error>>
    /\ UNCHANGED <<args, repo_info, srcFiles, tdirs, tfiles, log, regen, out, repos>>

ParseRepository ==
    /\ pc = "parse_repository"
    /\ IF ~repo_info.hasModules
       THEN /\ out' = out \o <<"This repository has no modules defined.",
                               "Grobisplitter only works on repos with modules.">>
            /\ pc' = "exit0"
            /\ UNCHANGED <<repos, error>>
       ELSE LET mod == ParseRepositoryModular(repo_info)
                modpkgset == GetModularPkgset(mod)
                non_modular == ParseRepositoryNonModular(repo_info, modpkgset)
            IN  IF Raised \in modpkgset
                THEN /\ error' = "ValueError or IndexError in _get_filename"
                     /\ pc' = "error"
                     /\ UNCHANGED <<repos, out>>
                ELSE \E order \in Perms(non_modular) :
                        /\ repos' = Append(mod, [key |-> NonModular, pkgs |-> order])
                        /\ pc' = AfterParse
                        /\ UNCHANGED <<out, error>>
    /\ UNCHANGED <<args, repo_info, srcFiles, fsTarget, tdirs, tfiles, log, regen>>

Validate ==
    /\ pc = "validate_filenames"
    /\ LET v == ValidateFilenames(srcFiles, repos)
       IN  /\ out' = out \o v.printed
           /\ IF ~v.isok
              THEN /\ error' = "ValueError: Package files were missing!"
                   /\ pc' = "error"
              ELSE /\ pc' = AfterValidate
                   /\ UNCHANGED error
    /\ UNCHANGED <<args, repo_info, srcFiles, fsTarget, tdirs, tfiles, log, regen, repos>>

Split ==
    /\ pc = "perform_split"
    /\ LET st == PerformSplit(repos, args, SplitStart)
       IN  /\ tdirs' = st.dirs
           /\ tfiles' = st.files
           /\ log' = st.log
           /\ IF st.err # "none"
              THEN /\ error' = st.err
                   /\ pc' = "error"
              ELSE /\ pc' = AfterSplit
                   /\ UNCHANGED error
           /\ fsTarget' = IF st.dirs # <<>> THEN "nonempty" ELSE fsTarget
    /\ UNCHANGED <<args, repo_info, srcFiles, regen, out, repos>>

CreateRepos ==
    /\ pc = "create_repos"
    /\ regen' = regen \o CreateReposRuns(repos)
    /\ pc' = "done"
    /\ UNCHANGED <<args, repo_info, srcFiles, fsTarget, tdirs, tfiles, log, out, repos, error>>

Next == SetupTarget \/ ParseRepository \/ Validate \/ Split \/ CreateRepos

Spec == Init /\ [][Next]_vars

-----------------------------------------------------------------------------
TypeOK ==
    /\ pc \in {"setup_target", "parse_repository", "validate_filenames",
               "perform_split", "create_repos", "done", "error", "exit0"}
    /\ fsTarget \in TargetStates

-----------------------------------------------------------------------------
(* Properties *)

Parsed == repos # <<>>
ModuleEntries == 1..(Len(repos) - 1)
NonModularSet == Range(repos[Len(repos)].pkgs)
KeysHolding(P) == {m \in 1..Len(repos) : P \in Range(repos[m].pkgs)}
AllPairs == {x \in (1..Len(repos)) \X (1..(MaxArtifacts + Cardinality(Locations))) :
                x[2] <= Len(repos[x[1]].pkgs)}
MissingPairs == {x \in AllPairs : repos[x[1]].pkgs[x[2]] \notin srcFiles}
PairOf(x) == [key |-> repos[x[1]].key, pkg |-> repos[x[1]].pkgs[x[2]]]
Keys == [m \in 1..Len(repos) |-> repos[m].key]
NoTargetMutation == tdirs = <<>> /\ tfiles = {} /\ log = <<>> /\ regen = <<>>
SplitRan == tdirs # <<>>

\* C1: in the Partition Map parse_repository returns, an indexed package is in
\* non_modular iff no module lists it; non_modular holds indexed packages only,
\* is disjoint from every module's list, every indexed package is under at
\* least one key, and under several keys only when several modules list it.
C1_NonModularIffUnclaimed ==
    Parsed =>
        /\ repos[Len(repos)].key = NonModular
        /\ \A m \in ModuleEntries : repos[m].key # NonModular
        /\ \A P \in repo_info.index :
                /\ (P \in NonModularSet) <=> (\A m \in ModuleEntries : P \notin Range(repos[m].pkgs))
                /\ KeysHolding(P) # {}
                /\ Cardinality(KeysHolding(P)) > 1 =>
                        Cardinality(KeysHolding(P) \cap ModuleEntries) > 1
        /\ NonModularSet \subseteq repo_info.index
        /\ \A m \in ModuleEntries : NonModularSet \cap Range(repos[m].pkgs) = {}

\* two modules share an indexed package while another indexed package is unclaimed
C1_Witness ==
    /\ Parsed
    /\ Len(repos) = 3
    /\ P_a \in repo_info.index /\ P_a \in Range(repos[1].pkgs) /\ P_a \in Range(repos[2].pkgs)
    /\ O_a \in NonModularSet

\* C2: after perform_split completes without error, every owned path whose
\* source exists has a file at <target>/K/<basename> that corresponds to
\* <repository>/P, and the target holds exactly one subdirectory per key.
C2_EveryOwnedPathPlaced ==
    (args.target /\ pc \in {"create_repos", "done"}) =>
        /\ tdirs = Keys
        /\ \A x \in AllPairs :
                PairOf(x).pkg \in srcFiles =>
                    \E e \in tfiles : /\ e.dir = PairOf(x).key
                                      /\ e.name = PathSplitTail(PairOf(x).pkg)
                                      /\ e.src = PairOf(x).pkg
        /\ \A e \in tfiles : e.dir \in Range(Keys)

\* C3: with no module-definition artifact no step of the run changes the file
\* system, and parse_repository prints the notice and exits 0.
C3_NoModulesNoMutation ==
    [][~repo_info.hasModules =>
            /\ fsTarget' = fsTarget
            /\ tdirs' = tdirs /\ tfiles' = tfiles /\ regen' = regen
            /\ pc = "parse_repository" => (pc' = "exit0" /\ out' # <<>>)]_vars

\* C4: without --skip-missing, validate_filenames prints every missing
\* (key, path) pair, fails iff one is missing, and a failure ends main with the
\* fatal error before any subdirectory, file or createrepo_c run.
C4_ValidatorReportsAll ==
    (Parsed /\ ~args.skip_missing /\ pc # "validate_filenames") =>
        /\ \A x \in MissingPairs : PairOf(x) \in Range(out)
        /\ (error = "ValueError: Package files were missing!") <=> (MissingPairs # {})
        /\ MissingPairs # {} => (pc = "error" /\ NoTargetMutation)
        /\ MissingPairs = {} => (pc # "error" \/ SplitRan)

\* two paths of two different partitions are missing and both were reported
C4_Witness ==
    /\ pc = "error" /\ error = "ValueError: Package files were missing!"
    /\ args.target /\ args.create_repos
    /\ \E i, j \in 1..Len(out) : out[i].key # out[j].key /\ out[i].pkg # out[j].pkg
    /\ NoTargetMutation

\* C5: during materialization a missing source is tolerated by copy (no error,
\* no destination file for that path, everything else is processed) and fatal
\* for hardlink (the run stops at that path, nothing later is processed, no
\* createrepo_c run).
C5_MissingSourceByStrategy ==
    /\ (args.action = "copy" /\ SplitRan) =>
            /\ error = "none"
            /\ log = Pairs(repos)
            /\ tdirs = Keys
            /\ \A i \in 1..Len(log) :
                    log[i].pkg \notin srcFiles =>
                        ~\E e \in tfiles : e.dir = log[i].key /\ e.src = log[i].pkg
    /\ args.action = "hardlink" =>
            \A i \in 1..Len(log) :
                log[i].pkg \notin srcFiles =>
                    /\ i = Len(log)
                    /\ pc = "error" /\ error = "FileNotFoundError"
                    /\ tdirs[Len(tdirs)] = log[i].key
                    /\ regen = <<>>
                    /\ ~\E e \in tfiles : e.dir = log[i].key /\ e.src = log[i].pkg

\* copy met a missing source and went on to a later path and a later partition
C5_Witness ==
    /\ args.action = "copy" /\ pc = "done" /\ args.create_repos
    /\ Len(log) >= 3
    /\ log[1].pkg \notin srcFiles
    /\ log[2].pkg \in srcFiles /\ log[2].key = log[1].key
    /\ log[3].pkg \in srcFiles /\ log[3].key # log[1].key
    /\ \E e \in tfiles : e.src = log[3].pkg
    /\ Len(regen) = Len(repos)

\* C6: with symlink a missing source is fatal as for hardlink: the run stops at
\* that path and no destination entry is created for it.
C6_SymlinkMissingIsFatal ==
    args.action = "symlink" =>
        \A i \in 1..Len(log) :
            log[i].pkg \notin srcFiles =>
                /\ i = Len(log)
                /\ pc = "error"
                /\ ~\E e \in tfiles : e.dir = log[i].key /\ e.src = log[i].pkg

C8_NoTargetNoMaterialization ==
    ~args.target =>
        /\ NoTargetMutation
        /\ fsTarget = "absent"
        /\ pc \notin {"perform_split", "create_repos"}
        /\ pc = "done" => (Parsed /\ (~args.skip_missing => MissingPairs = {}))
        /\ (pc = "error" /\ Parsed) =>
                (~args.skip_missing /\ MissingPairs # {} /\ Range(out) # {})

\* a dry run with --create-repos classified, validated and finished
C8_Witness ==
    /\ ~args.target /\ args.create_repos /\ ~args.skip_missing
    /\ pc = "done"
    /\ Len(repos) = 3 /\ NonModularSet # {}
    /\ NoTargetMutation

RECURSIVE DedupSeq(_)
DedupSeq(s) ==
    IF s = <<>> THEN <<>>
    ELSE LET d == DedupSeq(SubSeq(s, 1, Len(s) - 1))
         IN  IF s[Len(s)] \in Range(d) THEN d ELSE Append(d, s[Len(s)])

Deduplicated(rs) == [m \in 1..Len(rs) |-> [key |-> rs[m].key, pkgs |-> DedupSeq(rs[m].pkgs)]]

\* C9: a module list that holds a path twice is harmless: validation and
\* materialization end as they do for the map with the list deduplicated, with
\* the same destination tree, whatever the strategy.
C9_DuplicatesHarmless ==
    (Parsed /\ args.target /\ pc \in {"create_repos", "done", "error"}
            /\ error # "ValueError: Package files were missing!") =>
        LET st == PerformSplit(Deduplicated(repos), args, SplitStart)
        IN  /\ ValidateFilenames(srcFiles, repos).isok
                = ValidateFilenames(srcFiles, Deduplicated(repos)).isok
            /\ tdirs = st.dirs
            /\ tfiles = st.files
            /\ error = st.err

\* C10: every path listed under a module key is in the package index.
C10_ModulePathsIndexed ==
    Parsed => \A m \in ModuleEntries : Range(repos[m].pkgs) \subseteq repo_info.index

====
